---- MODULE Spec2Model ----
(***************************************************************************)
(* update_stats.py: fetch the QRZ logbook, parse its ADIF payload, derive  *)
(* the statistics, rewrite the numbers of index.html and export            *)
(* data/logbook.csv.                                                       *)
(*                                                                         *)
(* A Python str is modelled as a sequence of one-character strings, so     *)
(* that searching, splitting, slicing, stripping, case mapping and sorting *)
(* are computed character by character as the code computes them.          *)
(***************************************************************************)
EXTENDS Integers, Sequences, FiniteSets, TLC

VARIABLES
    pc,           \* where main is
    raw,          \* main: the text fetch_qsos returned
    adif_data,    \* parse_adif: the ADIF payload that is split into records
    qsos,         \* main: the records parse_adif returned
    stats,        \* main: what compute_stats returned
    html,         \* update_html: the content being rewritten
    pending,      \* update_html: the labels the loop has still to process
    index_html,   \* the file index.html
    csv_content,  \* main: what build_logbook_csv returned
    logbook_csv,  \* the file data/logbook.csv
    written,      \* the files this run has opened for writing
    out,          \* what the run has printed
    exit_code     \* the exit status, NoExit while the run goes on

vars == <<pc, raw, adif_data, qsos, stats, html, pending, index_html,
          csv_content, logbook_csv, written, out, exit_code>>

----------------------------------------------------------------------------
(* Characters: the ASCII code points in order; Ascii[n + 1] is chr(n).      *)
(* Control characters without a TLA+ escape, and the grave accent, are      *)
(* named by their hex code.                                                 *)

Ascii ==
    <<
       "x00", "x01", "x02", "x03", "x04", "x05", "x06", "x07",
       "x08", "\t", "\n", "x0B", "\f", "\r", "x0E", "x0F",
       "x10", "x11", "x12", "x13", "x14", "x15", "x16", "x17",
       "x18", "x19", "x1A", "x1B", "x1C", "x1D", "x1E", "x1F",
       " ", "!", "\"", "#", "$", "%", "&", "'",
       "(", ")", "*", "+", ",", "-", ".", "/",
       "0", "1", "2", "3", "4", "5", "6", "7",
       "8", "9", ":", ";", "<", "=", ">", "?",
       "@", "A", "B", "C", "D", "E", "F", "G",
       "H", "I", "J", "K", "L", "M", "N", "O",
       "P", "Q", "R", "S", "T", "U", "V", "W",
       "X", "Y", "Z", "[", "\\", "]", "^", "_",
       "x60", "a", "b", "c", "d", "e", "f", "g",
       "h", "i", "j", "k", "l", "m", "n", "o",
       "p", "q", "r", "s", "t", "u", "v", "w",
       "x", "y", "z", "{", "|", "}", "~", "x7F"
    >>

(* U+FFFD, what decode(errors="replace") yields for a byte that is no UTF-8 *)
Replacement == "xFFFD"

(* The one non-ASCII letter of the labels of update_html (U+00ED).          *)
IAcute == "xED"

AsciiSet == {Ascii[i] : i \in 1..Len(Ascii)}

(* ord(c) *)
Ord == [c \in AsciiSet |-> (CHOOSE i \in 1..Len(Ascii) : Ascii[i] = c) - 1]

(* Code points above ASCII order after every ASCII character.               *)
OrdOf(c) == IF c \in AsciiSet THEN Ord[c] ELSE IF c = IAcute THEN 237 ELSE 65533

Chr(n) == Ascii[n + 1]

IsDigit(c) == c \in {"0", "1", "2", "3", "4", "5", "6", "7", "8", "9"}

IsUpperChar(c) == c \in AsciiSet /\ Ord[c] >= 65 /\ Ord[c] <= 90

IsLowerChar(c) == c \in AsciiSet /\ Ord[c] >= 97 /\ Ord[c] <= 122

(* \w of a str pattern: alphanumeric or underscore *)
IsWord(c) == IsDigit(c) \/ IsUpperChar(c) \/ IsLowerChar(c) \/ c = "_" \/ c = IAcute

(* str.isspace, which is also \s of a str pattern *)
IsSpace(c) == c \in {" ", "\t", "\n", "x0B", "\f", "\r", "x1C", "x1D", "x1E", "x1F"}

UpperChar(c) == IF IsLowerChar(c) THEN Chr(Ord[c] - 32) ELSE c

LowerChar(c) == IF IsUpperChar(c) THEN Chr(Ord[c] + 32) ELSE c

(* str.upper and str.lower *)
Upper(s) == [i \in 1..Len(s) |-> UpperChar(s[i])]

Lower(s) == [i \in 1..Len(s) |-> LowerChar(s[i])]

----------------------------------------------------------------------------
(* Text primitives                                                          *)

(* s[i] with the end of the text as the empty string (no character) *)
At(s, i) == IF i >= 1 /\ i <= Len(s) THEN s[i] ELSE ""

(* s[i-1:] from the 1-based position i *)
From(s, i) == SubSeq(s, i, Len(s))

(* value[:n] *)
Take(s, n) == SubSeq(s, 1, IF n < Len(s) THEN n ELSE Len(s))

(* the literal lit occurs in s at position i *)
StartsAt(s, i, lit) ==
    /\ i >= 1
    /\ i + Len(lit) - 1 <= Len(s)
    /\ \A k \in 1..Len(lit) : s[i + k - 1] = lit[k]

(* lit in s *)
Contains(s, lit) == \E i \in 1..Len(s) : StartsAt(s, i, lit)

(* position of the leftmost occurrence of lit in s, 0 when there is none *)
Search(s, lit) ==
    IF Contains(s, lit)
    THEN CHOOSE i \in 1..Len(s) :
             StartsAt(s, i, lit) /\ \A k \in 1..(i - 1) : ~StartsAt(s, k, lit)
    ELSE 0

(* the character classes of the patterns: \w, \d, [^&], [^<], \s *)
InClass(cls, c) ==
    CASE cls = "word" -> IsWord(c)
      [] cls = "digit" -> IsDigit(c)
      [] cls = "notamp" -> c # "&"
      [] cls = "notlt" -> c # "<"
      [] cls = "space" -> IsSpace(c)

(* end of the longest run of characters of class cls that starts at i       *)
(* (i - 1 when the run is empty): a greedy run whose follower is outside    *)
RECURSIVE SpanEnd(_, _, _)
SpanEnd(s, i, cls) ==
    IF i >= 1 /\ i <= Len(s) /\ InClass(cls, s[i]) THEN SpanEnd(s, i + 1, cls) ELSE i - 1

(* str.strip() *)
Strip(s) ==
    IF \A i \in 1..Len(s) : IsSpace(s[i])
    THEN <<>>
    ELSE LET a == CHOOSE i \in 1..Len(s) :
                      ~IsSpace(s[i]) /\ \A k \in 1..(i - 1) : IsSpace(s[k])
             b == CHOOSE i \in 1..Len(s) :
                      ~IsSpace(s[i]) /\ \A k \in (i + 1)..Len(s) : IsSpace(s[k])
         IN  SubSeq(s, a, b)

(* int(digits) *)
RECURSIVE DecVal(_)
DecVal(d) ==
    IF d = <<>> THEN 0
    ELSE 10 * DecVal(SubSeq(d, 1, Len(d) - 1)) + (Ord[d[Len(d)]] - 48)

(* str(n) for n >= 0 *)
RECURSIVE Str(_)
Str(n) == IF n < 10 THEN <<Chr(48 + n)>> ELSE Str(n \div 10) \o <<Chr(48 + (n % 10))>>

----------------------------------------------------------------------------
(* urllib.parse.unquote                                                     *)

IsHex(c) ==
    \/ IsDigit(c)
    \/ c \in {"a", "b", "c", "d", "e", "f", "A", "B", "C", "D", "E", "F"}

HexVal(c) ==
    IF IsDigit(c) THEN Ord[c] - 48
    ELSE IF IsLowerChar(c) THEN Ord[c] - 87
    ELSE Ord[c] - 55

(* One escaped byte decoded as UTF-8 with errors="replace": an ASCII byte   *)
(* is its character, a byte above 0x7F on its own is U+FFFD. (Escaped       *)
(* bytes that together encode one character above ASCII are not among the   *)
(* payloads.)                                                               *)
DecodeByte(b) == IF b < 128 THEN Chr(b) ELSE Replacement

RECURSIVE unquote(_)
unquote(s) ==
    IF s = <<>> THEN <<>>
    ELSE IF s[1] = "%" /\ IsHex(At(s, 2)) /\ IsHex(At(s, 3))
         THEN <<DecodeByte(16 * HexVal(s[2]) + HexVal(s[3]))>> \o unquote(From(s, 4))
         ELSE <<s[1]>> \o unquote(From(s, 2))

----------------------------------------------------------------------------
(* parse_adif                                                               *)

RESULT_FAIL == <<"R", "E", "S", "U", "L", "T", "=", "F", "A", "I", "L">>

REASON_EQ == <<"R", "E", "A", "S", "O", "N", "=">>

ADIF_EQ == <<"A", "D", "I", "F", "=">>

EOR == <<"<", "e", "o", "r", ">">>

Desconocido == <<"d", "e", "s", "c", "o", "n", "o", "c", "i", "d", "o">>

(* re.search of REASON= and one or more non-& characters: the start of the  *)
(* leftmost REASON=                                                         *)
(* that a character other than & follows, 0 when there is none              *)
ReasonMatch(s) ==
    LET hit(i) == StartsAt(s, i, REASON_EQ) /\ i + Len(REASON_EQ) <= Len(s)
                  /\ s[i + Len(REASON_EQ)] # "&"
    IN  IF \E i \in 1..Len(s) : hit(i)
        THEN CHOOSE i \in 1..Len(s) : hit(i) /\ \A k \in 1..(i - 1) : ~hit(k)
        ELSE 0

(* FailReason with the group running to the end of the text *)
FailReason_ToEnd(s) ==
    LET m == ReasonMatch(s)
    IN  IF m = 0 THEN Desconocido ELSE From(s, m + Len(REASON_EQ))

(* msg = reason.group(1) if reason else "desconocido" *)
FailReason(s) ==
    LET m == ReasonMatch(s)
        g == m + Len(REASON_EQ)
    IN  IF m = 0 THEN Desconocido ELSE SubSeq(s, g, SpanEnd(s, g, "notamp"))

(* AdifPayload without the call of unquote *)
AdifPayload_NoDecode(s) ==
    LET m == Search(s, ADIF_EQ)
    IN  IF m = 0 THEN s ELSE From(s, m + Len(ADIF_EQ))

(* adif_match = re.search of ADIF= and the rest of the text (DOTALL)        *)
(* adif_data = raw if not adif_match else unquote(adif_match.group(1))      *)
AdifPayload(s) ==
    LET m == Search(s, ADIF_EQ)
    IN  IF m = 0 THEN s ELSE unquote(From(s, m + Len(ADIF_EQ)))

(* <eor>, ignoring case, occurs in s at position i *)
EorAt(s, i) ==
    /\ i + Len(EOR) - 1 <= Len(s)
    /\ \A k \in 1..Len(EOR) : LowerChar(s[i + k - 1]) = EOR[k]

(* re.split(r"<eor>", adif_data, flags=re.IGNORECASE) *)
RECURSIVE SplitEor(_)
SplitEor(s) ==
    IF \E i \in 1..Len(s) : EorAt(s, i)
    THEN LET p == CHOOSE i \in 1..Len(s) :
                      EorAt(s, i) /\ \A k \in 1..(i - 1) : ~EorAt(s, k)
         IN  <<SubSeq(s, 1, p - 1)>> \o SplitEor(From(s, p + Len(EOR)))
    ELSE <<s>>

(* One attempt of the field pattern at position i of rec: "<", a name of    *)
(* word characters, ":", a length of digits, optionally ":" and a type of  *)
(* word characters, ">", then the value: every character up to the next "<" *)
(* Every repetition is followed by a character outside its class, so the    *)
(* greedy run is the only way to match and there is no backtracking.        *)
MatchField(rec, i) ==
    LET nameEnd == SpanEnd(rec, i + 1, "word")
        lenEnd == SpanEnd(rec, nameEnd + 2, "digit")
        typeEnd == SpanEnd(rec, lenEnd + 2, "word")
        head == /\ At(rec, i) = "<"
                /\ nameEnd >= i + 1
                /\ At(rec, nameEnd + 1) = ":"
                /\ lenEnd >= nameEnd + 2
        typed == head /\ At(rec, lenEnd + 1) = ":" /\ typeEnd >= lenEnd + 2
                      /\ At(rec, typeEnd + 1) = ">"
        plain == head /\ At(rec, lenEnd + 1) = ">"
        tagEnd == IF plain THEN lenEnd + 1 ELSE typeEnd + 1
        valEnd == SpanEnd(rec, tagEnd + 1, "notlt")
    IN  IF plain \/ typed
        THEN [ok |-> TRUE, name |-> SubSeq(rec, i + 1, nameEnd),
              length |-> SubSeq(rec, nameEnd + 2, lenEnd),
              value |-> SubSeq(rec, tagEnd + 1, valEnd), end |-> valEnd]
        ELSE [ok |-> FALSE, name |-> <<>>, length |-> <<>>, value |-> <<>>, end |-> i]

(* re.findall(...) from position i on: the non-overlapping matches, left to right *)
RECURSIVE FindFields(_, _)
FindFields(rec, i) ==
    IF i > Len(rec) THEN <<>>
    ELSE LET m == MatchField(rec, i)
         IN  IF m.ok THEN <<m>> \o FindFields(rec, m.end + 1)
             ELSE FindFields(rec, i + 1)

(* FieldValue without the slice to the declared length *)
FieldValue_NoTruncate(value, length) == Strip(value)

(* value[:int(length)].strip() *)
FieldValue(value, length) == Strip(Take(value, DecVal(length)))

(* qso[key] = val *)
Put(qso, key, val) ==
    [k \in DOMAIN qso \cup {key} |-> IF k = key THEN val ELSE qso[k]]

EmptyQso == [k \in {} |-> <<>>]

(* for name, length, value in fields: qso[name.upper()] = ... *)
RECURSIVE FillQso(_, _)
FillQso(qso, fields) ==
    IF fields = <<>> THEN qso
    ELSE FillQso(Put(qso, Upper(fields[1].name),
                     FieldValue(fields[1].value, fields[1].length)),
                 Tail(fields))

(* ParseRecords without the test of qso before the append *)
RECURSIVE ParseRecords_KeepEmpty(_)
ParseRecords_KeepEmpty(records) ==
    IF records = <<>> THEN <<>>
    ELSE LET record == records[1]
             qso == FillQso(EmptyQso, FindFields(record, 1))
         IN  (IF Strip(record) = <<>> THEN <<>> ELSE <<qso>>)
             \o ParseRecords_KeepEmpty(Tail(records))

(* for record in records: skip the blank ones, keep the non-empty qso *)
RECURSIVE ParseRecords(_)
ParseRecords(records) ==
    IF records = <<>> THEN <<>>
    ELSE LET record == records[1]
             qso == FillQso(EmptyQso, FindFields(record, 1))
         IN  (IF Strip(record) = <<>> \/ DOMAIN qso = {} THEN <<>> ELSE <<qso>>)
             \o ParseRecords(Tail(records))

(* parse_adif(raw): sys.exit(1) after printing the reason, or the records *)
parse_adif(s) ==
    IF Contains(s, RESULT_FAIL)
    THEN [failed |-> TRUE, reason |-> FailReason(s), adif_data |-> <<>>, qsos |-> <<>>]
    ELSE [failed |-> FALSE, reason |-> <<>>, adif_data |-> AdifPayload(s),
          qsos |-> ParseRecords(SplitEor(AdifPayload(s)))]

----------------------------------------------------------------------------
(* compute_stats                                                            *)

CALL == <<"C", "A", "L", "L">>

QSO_DATE == <<"Q", "S", "O", "_", "D", "A", "T", "E">>

BAND == <<"B", "A", "N", "D">>

MODE == <<"M", "O", "D", "E">>

COUNTRY == <<"C", "O", "U", "N", "T", "R", "Y">>

DXCC == <<"D", "X", "C", "C">>

(* qso.get(key, default) *)
Get(qso, key, default) == IF key \in DOMAIN qso THEN qso[key] ELSE default

(* a < b for two str: the first differing code point decides, a proper      *)
(* prefix is smaller                                                        *)
TextLess(a, b) ==
    \E i \in 1..(Len(b)) :
        /\ \A k \in 1..(i - 1) : k <= Len(a) /\ a[k] = b[k]
        /\ (i = Len(a) + 1 \/ (i <= Len(a) /\ OrdOf(a[i]) < OrdOf(b[i])))

(* sorted(set) *)
RECURSIVE sorted(_)
sorted(S) ==
    IF S = {} THEN <<>>
    ELSE LET m == CHOOSE x \in S : \A y \in S : y = x \/ TextLess(x, y)
         IN  <<m>> \o sorted(S \ {m})

(* qso.get("COUNTRY", "") or qso.get("DXCC", "") *)
CountryOf(qso) ==
    IF Get(qso, COUNTRY, <<>>) # <<>> THEN Get(qso, COUNTRY, <<>>)
    ELSE Get(qso, DXCC, <<>>)

(* compute_stats without the lower-casing of the band *)
compute_stats_RawBands(q) ==
    LET countries == {CountryOf(q[i]) : i \in 1..Len(q)} \ {<<>>}
        bands == {Get(q[i], BAND, <<>>) : i \in 1..Len(q)} \ {<<>>}
        modes == {Upper(m) : m \in {Get(q[i], MODE, <<>>) : i \in 1..Len(q)} \ {<<>>}}
    IN  [total |-> Len(q),
         countries |-> Cardinality(countries),
         bands |-> Cardinality(bands),
         modes |-> Cardinality(modes),
         country_list |-> sorted(countries),
         band_list |-> sorted(bands),
         mode_list |-> sorted(modes)]

(* total, the three sets, their sizes and their sorted lists *)
compute_stats(q) ==
    LET countries == {CountryOf(q[i]) : i \in 1..Len(q)} \ {<<>>}
        bands == {Lower(b) : b \in {Get(q[i], BAND, <<>>) : i \in 1..Len(q)} \ {<<>>}}
        modes == {Upper(m) : m \in {Get(q[i], MODE, <<>>) : i \in 1..Len(q)} \ {<<>>}}
    IN  [total |-> Len(q),
         countries |-> Cardinality(countries),
         bands |-> Cardinality(bands),
         modes |-> Cardinality(modes),
         country_list |-> sorted(countries),
         band_list |-> sorted(bands),
         mode_list |-> sorted(modes)]

NoStats ==
    [total |-> 0, countries |-> 0, bands |-> 0, modes |-> 0,
     country_list |-> <<>>, band_list |-> <<>>, mode_list |-> <<>>]

----------------------------------------------------------------------------
(* build_logbook_csv                                                        *)

Header ==
    <<"i", "n", "d", "i", "c", "a", "t", "i", "v", "o", ",", "f", "e", "c", "h", "a",
      ",", "b", "a", "n", "d", "a", ",", "m", "o", "d", "o">>

Placeholder == <<"?">>

DateLen == 8

(* FormatDate with a test of date.isdigit() added *)
FormatDate_DigitsOnly(date) ==
    IF Len(date) = DateLen /\ \A i \in 1..Len(date) : IsDigit(date[i])
    THEN SubSeq(date, 7, 8) \o <<"/">> \o SubSeq(date, 5, 6) \o <<"/">> \o SubSeq(date, 1, 4)
    ELSE date

(* if len(date) == 8: date = f"{date[6:8]}/{date[4:6]}/{date[0:4]}" *)
FormatDate(date) ==
    IF Len(date) = DateLen
    THEN SubSeq(date, 7, 8) \o <<"/">> \o SubSeq(date, 5, 6) \o <<"/">> \o SubSeq(date, 1, 4)
    ELSE date

(* f"{call},{date},{band},{mode}" of a record with a call *)
CsvRow(qso) ==
    Upper(Get(qso, CALL, <<>>)) \o <<",">>
    \o FormatDate(Get(qso, QSO_DATE, <<>>)) \o <<",">>
    \o Get(qso, BAND, Placeholder) \o <<",">>
    \o Get(qso, MODE, Placeholder)

(* CsvLines without the test of call *)
RECURSIVE CsvLines_AllRecords(_)
CsvLines_AllRecords(q) ==
    IF q = <<>> THEN <<>>
    ELSE <<CsvRow(q[1])>> \o CsvLines_AllRecords(Tail(q))

(* the rows appended by the loop: records without a call are skipped *)
RECURSIVE CsvLines(_)
CsvLines(q) ==
    IF q = <<>> THEN <<>>
    ELSE (IF Upper(Get(q[1], CALL, <<>>)) = <<>> THEN <<>> ELSE <<CsvRow(q[1])>>)
         \o CsvLines(Tail(q))

(* sep.join(lines) *)
RECURSIVE Join(_, _)
Join(sep, lines) ==
    IF lines = <<>> THEN <<>>
    ELSE IF Len(lines) = 1 THEN lines[1]
    ELSE lines[1] \o sep \o Join(sep, Tail(lines))

(* "\n".join(lines) + "\n" *)
build_logbook_csv(q) == Join(<<"\n">>, <<Header>> \o CsvLines(q)) \o <<"\n">>

----------------------------------------------------------------------------
(* update_html                                                              *)

StatNumberOpen ==
    <<"<", "d", "i", "v", " ", "c", "l", "a", "s", "s", "=", "\"",
      "s", "t", "a", "t", "-", "n", "u", "m", "b", "e", "r", "\"", ">">>

DivClose == <<"<", "/", "d", "i", "v", ">">>

StatLabelOpen ==
    <<"<", "d", "i", "v", " ", "c", "l", "a", "s", "s", "=", "\"",
      "s", "t", "a", "t", "-", "l", "a", "b", "e", "l", "\"", ">">>

LabelTotal == <<"Q", "S", "O", "s", " ", "T", "o", "t", "a", "l", "e", "s">>

LabelCountries == <<"P", "a", IAcute, "s", "e", "s">>

LabelBands == <<"B", "a", "n", "d", "a", "s">>

LabelModes == <<"M", "o", "d", "o", "s">>

(* the keys of replacements, in the order the dict is iterated *)
Labels == <<LabelTotal, LabelCountries, LabelBands, LabelModes>>

(* replacements[label] *)
ReplacementValue(st, label) ==
    CASE label = LabelTotal -> Str(st.total)
      [] label = LabelCountries -> Str(st.countries)
      [] label = LabelBands -> Str(st.bands)
      [] label = LabelModes -> Str(st.modes)

(* One attempt of the pattern at position i of s: the stat-number opening,  *)
(* one or more digits, the closing div, any whitespace, the stat-label      *)
(* opening and the label. The digits and the whitespace are each followed   *)
(* by "<", so the greedy runs are the only way to match.                    *)
MatchSlot(s, i, label) ==
    LET numStart == i + Len(StatNumberOpen)
        numEnd == SpanEnd(s, numStart, "digit")
        spStart == numEnd + 1 + Len(DivClose)
        spEnd == SpanEnd(s, spStart, "space")
        tail == StatLabelOpen \o label
        ok == /\ StartsAt(s, i, StatNumberOpen)
              /\ numEnd >= numStart
              /\ StartsAt(s, numEnd + 1, DivClose)
              /\ StartsAt(s, spEnd + 1, tail)
    IN  IF ok
        THEN [ok |-> TRUE, numStart |-> numStart, numEnd |-> numEnd,
              end |-> spEnd + Len(tail)]
        ELSE [ok |-> FALSE, numStart |-> i, numEnd |-> i, end |-> i]

(* re.subn(pattern, replacement, html) from position i on: every            *)
(* non-overlapping match, left to right, keeps its two groups and gets the  *)
(* value for its digits; the text and the number of matches                 *)
RECURSIVE Subn(_, _, _, _)
Subn(s, i, label, value) ==
    LET hits == {p \in i..Len(s) : MatchSlot(s, p, label).ok}
    IN  IF hits = {} THEN [text |-> From(s, i), count |-> 0]
        ELSE LET p == CHOOSE x \in hits : \A y \in hits : x <= y
                 m == MatchSlot(s, p, label)
                 rest == Subn(s, m.end + 1, label, value)
             IN  [text |-> SubSeq(s, i, m.numStart - 1) \o value
                           \o SubSeq(s, m.numEnd + 1, m.end) \o rest.text,
                  count |-> 1 + rest.count]

----------------------------------------------------------------------------
(* main                                                                     *)

NoExit == -1

(* print(...): one printed line, named, with the text interpolated into it *)
Msg(line, text) == [line |-> line, text |-> text]

(* sys.exit(code) after printing msgs *)
Exit(code, msgs) ==
    /\ pc' = "done"
    /\ exit_code' = code
    /\ out' = out \o msgs

(* go on to the step next after printing msgs *)
Goto(next, msgs) ==
    /\ pc' = next
    /\ out' = out \o msgs
    /\ UNCHANGED exit_code

(* an exception nobody catches: the traceback goes to stderr, the status is 1 *)
Uncaught == Exit(1, <<>>)

Rest == <<raw, adif_data, qsos, stats, html, pending, index_html,
          csv_content, logbook_csv, written>>

(* raw = fetch_qsos(args.api_key): the response, whatever the service sent *)
FetchOk(payloads) ==
    /\ pc = "fetch"
    /\ \E r \in payloads : raw' = r
    /\ Goto("parse", <<Msg("descargando", <<>>)>>)
    /\ UNCHANGED <<adif_data, qsos, stats, html, pending, index_html,
                   csv_content, logbook_csv, written>>

(* fetch_qsos: urlopen raised, the except branch prints and exits *)
FetchError ==
    /\ pc = "fetch"
    /\ Exit(1, <<Msg("descargando", <<>>), Msg("error_conectando", <<>>)>>)
    /\ UNCHANGED Rest

(* qsos = parse_adif(raw) *)
ParseAdif ==
    /\ pc = "parse"
    /\ LET r == parse_adif(raw)
       IN  IF r.failed
           THEN /\ Exit(1, <<Msg("parseando", <<>>), Msg("error_qrz", r.reason)>>)
                /\ UNCHANGED <<adif_data, qsos>>
           ELSE /\ adif_data' = r.adif_data
                /\ qsos' = r.qsos
                /\ Goto("check", <<Msg("parseando", <<>>)>>)
    /\ UNCHANGED <<raw, stats, html, pending, index_html, csv_content,
                   logbook_csv, written>>

(* CheckQsos without the test of qsos *)
CheckQsos_GoOn ==
    /\ pc = "check"
    /\ Goto("stats", <<>>)
    /\ UNCHANGED Rest

(* CheckQsos with sys.exit(0) *)
CheckQsos_ExitZero ==
    /\ pc = "check"
    /\ IF qsos = <<>> THEN Exit(0, <<Msg("no_qsos", <<>>)>>) ELSE Goto("stats", <<>>)
    /\ UNCHANGED Rest

(* if not qsos: print and sys.exit(1) *)
CheckQsos ==
    /\ pc = "check"
    /\ IF qsos = <<>> THEN Exit(1, <<Msg("no_qsos", <<>>)>>) ELSE Goto("stats", <<>>)
    /\ UNCHANGED Rest

(* the summary main prints of the statistics *)
Summary(st) ==
    <<Msg("calculando", Str(st.total)),
      Msg("resumen_total", Str(st.total)),
      Msg("resumen_paises", Str(st.countries) \o <<" ">> \o Join(<<",", " ">>, st.country_list)),
      Msg("resumen_bandas", Str(st.bands) \o <<" ">> \o Join(<<",", " ">>, st.band_list)),
      Msg("resumen_modos", Str(st.modes) \o <<" ">> \o Join(<<",", " ">>, st.mode_list)),
      Msg("actualizando_html", <<>>)>>

(* stats = compute_stats(qsos) and the summary *)
ComputeStats ==
    /\ pc = "stats"
    /\ stats' = compute_stats(qsos)
    /\ Goto("html_open", Summary(compute_stats(qsos)))
    /\ UNCHANGED <<raw, adif_data, qsos, html, pending, index_html, csv_content,
                   logbook_csv, written>>

(* update_html: html = f.read() of index.html, and the loop begins *)
UpdateHtmlOpen ==
    /\ pc = "html_open"
    /\ html' = index_html
    /\ pending' = Labels
    /\ Goto("html_label", <<>>)
    /\ UNCHANGED <<raw, adif_data, qsos, stats, index_html, csv_content,
                   logbook_csv, written>>

(* update_html: open("index.html", "r") raised *)
UpdateHtmlOpenError ==
    /\ pc = "html_open"
    /\ Uncaught
    /\ UNCHANGED Rest

(* UpdateHtmlLabel with sys.exit(1) in the else branch *)
UpdateHtmlLabel_AbortOnMissing ==
    /\ pc = "html_label"
    /\ pending # <<>>
    /\ LET label == Head(pending)
           r == Subn(html, 1, label, ReplacementValue(stats, label))
       IN  /\ html' = r.text
           /\ pending' = Tail(pending)
           /\ IF r.count = 0
              THEN Exit(1, <<Msg("label_missing", label)>>)
              ELSE Goto(IF Tail(pending) = <<>> THEN "html_write" ELSE "html_label",
                        <<Msg("label_ok", label \o <<":", " ">> \o ReplacementValue(stats, label))>>)
    /\ UNCHANGED <<raw, adif_data, qsos, stats, index_html, csv_content,
                   logbook_csv, written>>

(* update_html: one turn of the loop over replacements *)
UpdateHtmlLabel ==
    /\ pc = "html_label"
    /\ pending # <<>>
    /\ LET label == Head(pending)
           r == Subn(html, 1, label, ReplacementValue(stats, label))
       IN  /\ html' = r.text
           /\ pending' = Tail(pending)
           /\ Goto(IF Tail(pending) = <<>> THEN "html_write" ELSE "html_label",
                   IF r.count > 0
                   THEN <<Msg("label_ok", label \o <<":", " ">> \o ReplacementValue(stats, label))>>
                   ELSE <<Msg("label_missing", label)>>)
    /\ UNCHANGED <<raw, adif_data, qsos, stats, index_html, csv_content,
                   logbook_csv, written>>

(* update_html: f.write(html) to index.html; back in main *)
UpdateHtmlWrite ==
    /\ pc = "html_write"
    /\ index_html' = html
    /\ written' = written \cup {"index.html"}
    /\ Goto("build_csv", <<Msg("actualizando_csv", <<>>)>>)
    /\ UNCHANGED <<raw, adif_data, qsos, stats, html, pending, csv_content, logbook_csv>>

(* update_html: open("index.html", "w") raised *)
UpdateHtmlWriteError ==
    /\ pc = "html_write"
    /\ Uncaught
    /\ UNCHANGED Rest

(* csv_content = build_logbook_csv(qsos) *)
BuildCsv ==
    /\ pc = "build_csv"
    /\ csv_content' = build_logbook_csv(qsos)
    /\ Goto("write_csv", <<>>)
    /\ UNCHANGED <<raw, adif_data, qsos, stats, html, pending, index_html,
                   logbook_csv, written>>

(* update_logbook_csv(csv_content) *)
UpdateLogbookCsv ==
    /\ pc = "write_csv"
    /\ logbook_csv' = csv_content
    /\ written' = written \cup {"data/logbook.csv"}
    /\ Goto("finish", <<Msg("escritos", Str(Len(qsos)))>>)
    /\ UNCHANGED <<raw, adif_data, qsos, stats, html, pending, index_html, csv_content>>

(* update_logbook_csv: os.makedirs or open raised *)
UpdateLogbookCsvError ==
    /\ pc = "write_csv"
    /\ Uncaught
    /\ UNCHANGED Rest

(* main returns: the interpreter exits with status 0 *)
Finish ==
    /\ pc = "finish"
    /\ Exit(0, <<Msg("listo", <<>>)>>)
    /\ UNCHANGED Rest

----------------------------------------------------------------------------
(* Inputs                                                                   *)

MaxMainFrags == 2
MaxSlots == 2
MaxEnvFrags == 4
MaxRecFrags == 4
MaxStatsQsos == 2
MaxCsvQsos == 3

(* the sequences of at most n elements of S *)
SeqsUpTo(S, n) == UNION {[1..k -> S] : k \in 0..n}

RECURSIVE Flatten(_)
Flatten(ss) == IF ss = <<>> THEN <<>> ELSE ss[1] \o Flatten(Tail(ss))

(* the texts made of at most n of the fragments *)
Texts(frags, n) == {Flatten(f) : f \in SeqsUpTo(frags, n)}

(* one statistic of the page: the number, then its label *)
Slot(num, label) ==
    StatNumberOpen \o num \o DivClose \o <<"\n">> \o StatLabelOpen \o label \o DivClose

SlotFrags ==
    {Slot(<<"7">>, LabelTotal), Slot(<<"1", "2">>, LabelBands), Slot(<<"-">>, LabelModes)}

Templates == Texts(SlotFrags, MaxSlots)

MainFrags ==
    {RESULT_FAIL,
     <<" ">>,
     <<"<", "c", "a", "l", "l", ":", "3", ">", "l", "u", "9",
       "<", "b", "a", "n", "d", ":", "3", ">", "4", "0", "M", "<", "e", "o", "r", ">">>,
     <<"<", "B", "A", "N", "D", ":", "3", ">", "4", "0", "m", "<", "E", "O", "R", ">">>,
     <<"A", "D", "I", "F", "=", "%", "3", "C", "M", "O", "D", "E", ":", "2", "%", "3", "E", "C", "W">>}

Payloads == Texts(MainFrags, MaxMainFrags)

EnvFrags ==
    {RESULT_FAIL, REASON_EQ, <<"&">>, ADIF_EQ, <<"%", "3", "C">>, <<"%">>,
     <<"I", "n", "v", "a", "l", "i", "d", "+", "K", "e", "y">>}

EnvPayloads == Texts(EnvFrags, MaxEnvFrags)

RecFrags ==
    {<<"<", "C", "A", "L", "L", ":", "3", ">">>,
     <<"<", "c", "a", "l", "l", ":", "1", ":", "s", ">">>,
     <<"<", "b", ":", "0", ">">>,
     <<"A", "B", "C", "D", "E", "F">>,
     <<" ">>,
     <<"<">>,
     <<"<", "e", "o", "r", ">">>,
     <<"<", "E", "o", "R", ">">>}

RecPayloads == Texts(RecFrags, MaxRecFrags)

(* the record with the given <<key, value>> pairs *)
RecOf(pairs) ==
    [k \in {p[1] : p \in pairs} |-> (CHOOSE p \in pairs : p[1] = k)[2]]

(* a field that is absent or has one of the values *)
Opt(key, values) == {{}} \cup {{<<key, v>>} : v \in values}

StatsRecords ==
    {RecOf(b \cup m \cup c \cup d) :
        b \in Opt(BAND, {<<>>, <<"4", "0", "M">>, <<"4", "0", "m">>, <<"2", "0", "m">>}),
        m \in Opt(MODE, {<<"s", "s", "b">>, <<"C", "W">>}),
        c \in Opt(COUNTRY, {<<>>, <<"C", "h", "i", "l", "e">>}),
        d \in Opt(DXCC, {<<"1", "1", "2">>})} \ {EmptyQso}

CsvRecords ==
    {RecOf(c \cup d \cup {<<BAND, <<"4", "0", "m">>>>}) :
        c \in Opt(CALL, {<<>>, <<"l", "u", "9">>, <<"W", "1">>}),
        d \in Opt(QSO_DATE, {<<"2", "0", "2", "4", "0", "1", "1", "5">>,
                             <<"2", "0", "2", "4">>,
                             <<"2", "0", "2", "4", "-", "1", "-", "5">>})}

----------------------------------------------------------------------------
(* Specifications                                                           *)

Fresh ==
    /\ raw = <<>>
    /\ adif_data = <<>>
    /\ qsos = <<>>
    /\ stats = NoStats
    /\ html = <<>>
    /\ pending = <<>>
    /\ csv_content = <<>>
    /\ logbook_csv = <<>>
    /\ written = {}
    /\ out = <<>>
    /\ exit_code = NoExit

(* main starts; index.html is the page as it was last committed *)
Init ==
    /\ pc = "fetch"
    /\ Fresh
    /\ index_html \in Templates

Next ==
    \/ FetchOk(Payloads)
    \/ FetchError
    \/ ParseAdif
    \/ CheckQsos
    \/ ComputeStats
    \/ UpdateHtmlOpen
    \/ UpdateHtmlOpenError
    \/ UpdateHtmlLabel
    \/ UpdateHtmlWrite
    \/ UpdateHtmlWriteError
    \/ BuildCsv
    \/ UpdateLogbookCsv
    \/ UpdateLogbookCsvError
    \/ Finish

Spec == Init /\ [][Next]_vars

(* parse_adif on the envelopes *)
InitEnvelope ==
    /\ pc = "fetch"
    /\ Fresh
    /\ index_html = <<>>

NextEnvelope == FetchOk(EnvPayloads) \/ ParseAdif

SpecEnvelope == InitEnvelope /\ [][NextEnvelope]_vars

(* parse_adif on the ADIF payloads *)
NextRecords == FetchOk(RecPayloads) \/ ParseAdif

SpecRecords == InitEnvelope /\ [][NextRecords]_vars

(* compute_stats on the record sequences *)
InitStats ==
    /\ pc = "stats"
    /\ raw = <<>>
    /\ adif_data = <<>>
    /\ qsos \in SeqsUpTo(StatsRecords, MaxStatsQsos)
    /\ stats = NoStats
    /\ html = <<>>
    /\ pending = <<>>
    /\ index_html = <<>>
    /\ csv_content = <<>>
    /\ logbook_csv = <<>>
    /\ written = {}
    /\ out = <<>>
    /\ exit_code = NoExit

NextStats == ComputeStats

SpecStats == InitStats /\ [][NextStats]_vars

(* compute_stats and build_logbook_csv on the record sequences *)
InitExport ==
    /\ pc = "stats"
    /\ raw = <<>>
    /\ adif_data = <<>>
    /\ qsos \in SeqsUpTo(CsvRecords, MaxCsvQsos)
    /\ stats = NoStats
    /\ html = <<>>
    /\ pending = <<>>
    /\ index_html = <<>>
    /\ csv_content = <<>>
    /\ logbook_csv = <<>>
    /\ written = {}
    /\ out = <<>>
    /\ exit_code = NoExit

NextExport ==
    \/ ComputeStats
    \/ UpdateHtmlOpen
    \/ UpdateHtmlLabel
    \/ UpdateHtmlWrite
    \/ BuildCsv

SpecExport == InitExport /\ [][NextExport]_vars

----------------------------------------------------------------------------
(* The claims about main (specification Spec)                               *)

(* the run printed the connection error of fetch_qsos *)
FetchFailed == \E i \in 1..Len(out) : out[i].line = "error_conectando"

(* C1: no output is written (neither index.html by update_html nor          *)
(* data/logbook.csv by update_logbook_csv) if the fetch failed, the          *)
(* envelope signalled failure or parse_adif returned no record: the steps   *)
(* from compute_stats to the two writes are reached only with a non-empty   *)
(* record sequence parsed from a fetched envelope that did not fail.        *)
C1_NoOutputOnFatalError ==
    /\ (FetchFailed \/ Contains(raw, RESULT_FAIL) \/ qsos = <<>>)
           => (written = {} /\ logbook_csv = <<>>)
    /\ pc \in {"stats", "html_open", "html_label", "html_write", "build_csv",
               "write_csv", "finish"}
           => (qsos # <<>> /\ ~FetchFailed /\ ~Contains(raw, RESULT_FAIL))

(* a run that ended on an empty parse of a fetched text, nothing written *)
C1_Witness ==
    /\ pc = "done"
    /\ raw # <<>>
    /\ ~Contains(raw, RESULT_FAIL)
    /\ qsos = <<>>
    /\ written = {}

(* C2: the process ends with a nonzero status when the fetch fails, when    *)
(* the envelope contains RESULT=FAIL or when no record was parsed, and with *)
(* status zero when parse, aggregate and export all completed; a run that   *)
(* has ended has exactly one of the two statuses, one that has not has none. *)
C2_ExitStatus ==
    /\ pc # "done" => exit_code = NoExit
    /\ pc = "done" =>
          /\ exit_code \in {0, 1}
          /\ (FetchFailed \/ Contains(raw, RESULT_FAIL) \/ qsos = <<>>) => exit_code # 0
          /\ (qsos # <<>> /\ written = {"index.html", "data/logbook.csv"}
                 /\ logbook_csv = csv_content)
                 => exit_code = 0
          /\ exit_code = 0 =>
                 /\ ~FetchFailed /\ ~Contains(raw, RESULT_FAIL) /\ qsos # <<>>
                 /\ written = {"index.html", "data/logbook.csv"}

(* a run that ended with status 1 because no record was parsed *)
C2_Witness ==
    /\ pc = "done"
    /\ exit_code = 1
    /\ ~FetchFailed
    /\ ~Contains(raw, RESULT_FAIL)
    /\ qsos = <<>>

(* the slot of label in s whose digits run from a to b: the stat-number     *)
(* opening right before a, digits only from a to b, the closing div, then   *)
(* whitespace only up to the stat-label opening and the label               *)
SlotAt(s, label, a, b) ==
    /\ a <= b
    /\ StartsAt(s, b + 1, DivClose)
    /\ StartsAt(s, a - Len(StatNumberOpen), StatNumberOpen)
    /\ \A k \in a..b : IsDigit(s[k])
    /\ \E d \in (b + Len(DivClose))..Len(s) :
          /\ StartsAt(s, d + 1, StatLabelOpen \o label)
          /\ \A k \in (b + Len(DivClose) + 1)..d : IsSpace(s[k])

(* the positions right after a stat-number opening *)
NumberStarts(s) == {a \in 1..Len(s) : StartsAt(s, a - Len(StatNumberOpen), StatNumberOpen)}

(* the numeric slot of label can be located in s *)
Located(s, label) ==
    \E a \in NumberStarts(s) : \E b \in a..Len(s) : SlotAt(s, label, a, b)

(* s has a slot of label and every slot of label holds value *)
Holds(s, label, value) ==
    /\ Located(s, label)
    /\ \A a \in NumberStarts(s) : \A b \in a..Len(s) :
          SlotAt(s, label, a, b) => SubSeq(s, a, b) = value

LabelSet == {Labels[i] : i \in 1..Len(Labels)}

(* C10: in update_html a label whose numeric slot cannot be located is      *)
(* reported and skipped without aborting: the content is left as it is,     *)
(* with the substitutions already applied, the loop goes on to the          *)
(* remaining labels, a label that is located gets its value without         *)
(* undoing another label's, and the content the loop ends with is what is   *)
(* written back before the run goes on to the export step.                  *)
C10_MissingLabelSkipped ==
    [][/\ (pc = "html_label" /\ ~Located(html, Head(pending))) =>
              /\ html' = html
              /\ pending' = Tail(pending)
              /\ pc' = (IF Tail(pending) = <<>> THEN "html_write" ELSE "html_label")
              /\ exit_code' = NoExit
              /\ out' = Append(out, Msg("label_missing", Head(pending)))
       /\ (pc = "html_label" /\ Located(html, Head(pending))) =>
              /\ Holds(html', Head(pending), ReplacementValue(stats, Head(pending)))
              /\ \A l \in LabelSet \ {Head(pending)} :
                     /\ Located(html', l) = Located(html, l)
                     /\ Holds(html, l, ReplacementValue(stats, l))
                            => Holds(html', l, ReplacementValue(stats, l))
              /\ pending' = Tail(pending)
              /\ pc' = (IF Tail(pending) = <<>> THEN "html_write" ELSE "html_label")
       /\ (pc = "html_write" /\ exit_code' = NoExit) =>
              /\ index_html' = html
              /\ pc' = "build_csv"
      ]_vars

(* the export step reached after a label was reported missing and another   *)
(* label's value was written back                                           *)
C10_Witness ==
    /\ pc = "build_csv"
    /\ \E i \in 1..Len(out) : out[i].line = "label_missing"
    /\ \E i \in 1..Len(out) : out[i].line = "label_ok"
    /\ "index.html" \in written
    /\ \E l \in LabelSet : Holds(index_html, l, ReplacementValue(stats, l))
    /\ \E l \in LabelSet : ~Located(index_html, l)

----------------------------------------------------------------------------
(* The claims about the envelope (specification SpecEnvelope)               *)

(* the text from a to b is a REASON= value: it follows REASON=, is not      *)
(* empty, holds no & and ends at the next & or at the end of the text       *)
ReasonValue(s, a, b) ==
    /\ a <= b
    /\ StartsAt(s, a - Len(REASON_EQ), REASON_EQ)
    /\ \A k \in a..b : s[k] # "&"
    /\ (b = Len(s) \/ s[b + 1] = "&")

(* reason is the first REASON= value of s, or default when s has none *)
IsReasonOf(s, reason, default) ==
    IF \E a \in 1..Len(s) : \E b \in a..Len(s) : ReasonValue(s, a, b)
    THEN \E a \in 1..Len(s) : \E b \in a..Len(s) :
            /\ ReasonValue(s, a, b)
            /\ \A a2 \in 1..(a - 1) : \A b2 \in a2..Len(s) : ~ReasonValue(s, a2, b2)
            /\ reason = SubSeq(s, a, b)
    ELSE reason = default

(* the run ended in parse_adif on a failure marker, printing reason *)
FailedWith(reason) ==
    /\ pc = "done"
    /\ exit_code = 1
    /\ qsos = <<>>
    /\ out # <<>>
    /\ out[Len(out)] = Msg("error_qrz", reason)

(* C3 as stated: on a payload that contains RESULT=FAIL, parse_adif fails   *)
(* fatally with the reason found between REASON= and the next &, and the    *)
(* reason is "unknown" when no REASON= value is present.                    *)
C3_ReasonDefaultsToUnknown ==
    (pc \notin {"fetch", "parse"} /\ Contains(raw, RESULT_FAIL)) =>
        \E reason \in {out[i].text : i \in 1..Len(out)} :
            /\ FailedWith(reason)
            /\ IsReasonOf(raw, reason, <<"u", "n", "k", "n", "o", "w", "n">>)

(* C3, amended: on a payload that contains RESULT=FAIL, parse_adif fails    *)
(* fatally (exit status 1, no record) with the reason found between the     *)
(* first REASON= that has a value and the next & or the end of the payload, *)
(* and the reason is "desconocido" when no REASON= has a value.             *)
C3_ReasonOfFailure ==
    (pc \notin {"fetch", "parse"} /\ Contains(raw, RESULT_FAIL)) =>
        \E reason \in {out[i].text : i \in 1..Len(out)} :
            /\ FailedWith(reason)
            /\ IsReasonOf(raw, reason, Desconocido)

(* RESULT=FAIL&REASON=Invalid+Key has failed with the reason Invalid+Key *)
C3_Witness ==
    /\ raw = RESULT_FAIL \o <<"&">> \o REASON_EQ
             \o <<"I", "n", "v", "a", "l", "i", "d", "+", "K", "e", "y">>
    /\ FailedWith(<<"I", "n", "v", "a", "l", "i", "d", "+", "K", "e", "y">>)

(* C4: on a payload without a failure marker, the ADIF payload that is      *)
(* split into records is the percent-decoded rest of the text after the     *)
(* first ADIF= marker, through the end of the input, and is the whole       *)
(* input, undecoded, when there is no ADIF= marker; neither case is an      *)
(* error. %3C decodes to "<" and a % that no two hex digits follow is kept. *)
C4_AdifPayload ==
    (pc \notin {"fetch", "parse"} /\ ~Contains(raw, RESULT_FAIL)) =>
        /\ pc = "check"
        /\ exit_code = NoExit
        /\ (\A i \in 1..Len(raw) : ~StartsAt(raw, i, ADIF_EQ)) => adif_data = raw
        /\ \A i \in 1..Len(raw) :
              (StartsAt(raw, i, ADIF_EQ) /\ \A k \in 1..(i - 1) : ~StartsAt(raw, k, ADIF_EQ))
                  => adif_data = unquote(SubSeq(raw, i + Len(ADIF_EQ), Len(raw)))
        /\ raw = ADIF_EQ \o <<"%", "3", "C", "%">> => adif_data = <<"<", "%">>
        /\ raw = <<"%", "3", "C">> \o ADIF_EQ \o <<"%", "%", "3", "C">> \o ADIF_EQ
              => adif_data = <<"%", "<">> \o ADIF_EQ

(* a payload whose text after ADIF= was changed by the decoding *)
C4_Witness ==
    /\ pc = "check"
    /\ \E i \in 1..Len(raw) :
          /\ StartsAt(raw, i, ADIF_EQ)
          /\ adif_data # SubSeq(raw, i + Len(ADIF_EQ), Len(raw))
          /\ Contains(adif_data, <<"<">>)

----------------------------------------------------------------------------
(* The claims about the records (specification SpecRecords)                 *)

(* an end-of-record marker, in any case, starts at position i of s *)
IsEorAt(s, i) ==
    /\ i >= 1
    /\ i + 4 <= Len(s)
    /\ s[i] = "<"
    /\ s[i + 1] \in {"e", "E"}
    /\ s[i + 2] \in {"o", "O"}
    /\ s[i + 3] \in {"r", "R"}
    /\ s[i + 4] = ">"

(* the chunks of s, each as <<first, last>>: a chunk starts the text or     *)
(* follows a marker, ends the text or precedes a marker, and holds none     *)
ChunkBounds(s) ==
    LET marks == {i \in 1..Len(s) : IsEorAt(s, i)}
    IN  {c \in ({1} \cup {i + 5 : i \in marks}) \X ({Len(s)} \cup {i - 1 : i \in marks}) :
            /\ c[2] >= c[1] - 1
            /\ \A i \in marks : i < c[1] \/ i > c[2]}

(* the ends of a name that starts after the "<" at i: word characters up    *)
(* to a ":"                                                                 *)
NameEnds(c, i) ==
    {n \in (i + 1)..(Len(c) - 1) :
        c[n + 1] = ":" /\ \A k \in (i + 1)..n : IsWord(c[k])}

(* the ends of a length that starts after the ":" behind n: digits up to a  *)
(* ":" or a ">"                                                             *)
LengthEnds(c, n) ==
    {l \in (n + 2)..(Len(c) - 1) :
        c[l + 1] \in {":", ">"} /\ \A k \in (n + 2)..l : IsDigit(c[k])}

(* the ends of a tag whose length ends at l: the ">" right after it, or the *)
(* ">" after ":" and a type of word characters                              *)
TagEnds(c, l) ==
    {e \in (l + 1)..Len(c) :
        /\ c[e] = ">"
        /\ (e = l + 1
            \/ (e >= l + 3 /\ c[l + 1] = ":" /\ \A k \in (l + 2)..(e - 1) : IsWord(c[k])))}

(* the field tags of the chunk c, each as <<start, end of the name, end of  *)
(* the length, end of the tag>>: "<", a name of word characters, ":", a     *)
(* length of digits, optionally ":" and a type of word characters, ">"      *)
TagSet(c) ==
    UNION {UNION {UNION {{<<i, n, l, e>> : e \in TagEnds(c, l)}
                         : l \in LengthEnds(c, n)}
                  : n \in NameEnds(c, i)}
           : i \in {x \in 1..Len(c) : c[x] = "<"}}

(* the upper-cased name of the tag g of c *)
TagName(c, g) == Upper(SubSeq(c, g[1] + 1, g[2]))

(* the value of the tag g of c: the text after the tag up to the next "<"   *)
(* or the end of the chunk, cut to the declared length, then trimmed        *)
TagValue(c, g) ==
    LET stop == CHOOSE j \in g[4]..Len(c) :
                    /\ \A k \in (g[4] + 1)..j : c[k] # "<"
                    /\ (j = Len(c) \/ c[j + 1] = "<")
        text == SubSeq(c, g[4] + 1, stop)
        n == DecVal(SubSeq(c, g[2] + 2, g[3]))
    IN  Strip(IF n < Len(text) THEN SubSeq(text, 1, n) ELSE text)

(* qso maps each upper-cased name of a tag of c to the value of the last    *)
(* tag of that name                                                         *)
IsRecordOf(qso, c) ==
    /\ DOMAIN qso = {TagName(c, g) : g \in TagSet(c)}
    /\ \A g \in TagSet(c) :
          (\A h \in TagSet(c) : TagName(c, h) = TagName(c, g) => h[1] <= g[1])
              => qso[TagName(c, g)] = TagValue(c, g)

(* the chunks of s that hold a field tag, in the order of the text *)
TaggedChunks(s) ==
    LET tagged == {b \in ChunkBounds(s) : TagSet(SubSeq(s, b[1], b[2])) # {}}
        nth(k) == CHOOSE b \in tagged :
                      Cardinality({x \in tagged : x[1] < b[1]}) = k - 1
    IN  [k \in 1..Cardinality(tagged) |-> SubSeq(s, nth(k)[1], nth(k)[2])]

(* C5: for every record chunk, the record parse_adif produces maps each     *)
(* upper-cased field name to the value of that name's last tag in the       *)
(* chunk, the value of a tag being the text after it up to the next "<" or  *)
(* the end of the chunk, cut to the declared LENGTH characters and then     *)
(* trimmed of surrounding whitespace.                                       *)
C5_FieldValues ==
    pc = "check" =>
        LET chunks == TaggedChunks(adif_data)
        IN  \A k \in 1..Len(chunks) :
                /\ k <= Len(qsos)
                /\ IsRecordOf(qsos[k], chunks[k])

(* <CALL:3>ABCDEF<eor> has given the one record with CALL = "ABC" *)
C5_Witness ==
    /\ pc = "check"
    /\ raw = <<"<", "C", "A", "L", "L", ":", "3", ">", "A", "B", "C", "D", "E", "F",
               "<", "e", "o", "r", ">">>
    /\ qsos = <<(CALL :> <<"A", "B", "C">>)>>

(* C6: every record parse_adif returns has at least one field: the chunks   *)
(* between the end-of-record markers, matched in any case, that are empty,  *)
(* blank or without a field tag give no record, the records are those of    *)
(* the chunks with a tag, in the order of the chunks, and an empty or blank *)
(* payload gives the empty sequence.                                        *)
C6_NoEmptyRecord ==
    pc = "check" =>
        /\ \A k \in 1..Len(qsos) : DOMAIN qsos[k] # {}
        /\ LET chunks == TaggedChunks(adif_data)
           IN  /\ Len(qsos) = Len(chunks)
               /\ \A k \in 1..Len(qsos) :
                     DOMAIN qsos[k] = {TagName(chunks[k], g) : g \in TagSet(chunks[k])}
        /\ (\A i \in 1..Len(adif_data) : IsSpace(adif_data[i])) => qsos = <<>>

(* a payload with a record after a chunk that is not blank and has no tag *)
C6_Witness ==
    /\ pc = "check"
    /\ Len(qsos) = 1
    /\ \E b \in ChunkBounds(adif_data) :
          /\ Strip(SubSeq(adif_data, b[1], b[2])) # <<>>
          /\ TagSet(SubSeq(adif_data, b[1], b[2])) = {}
          /\ \E b2 \in ChunkBounds(adif_data) :
                b[1] < b2[1] /\ TagSet(SubSeq(adif_data, b2[1], b2[2])) # {}

----------------------------------------------------------------------------
(* The claim about compute_stats (specification SpecStats)                  *)

(* the values of the field key in the records that have it *)
ValuesOf(q, key) == {q[i][key] : i \in {x \in 1..Len(q) : key \in DOMAIN q[x]}}

(* COUNTRY where it is present and not empty, DXCC in the other records *)
CountryValues(q) ==
    {q[i][COUNTRY] : i \in {x \in 1..Len(q) : COUNTRY \in DOMAIN q[x] /\ q[x][COUNTRY] # <<>>}}
    \cup {q[i][DXCC] : i \in {x \in 1..Len(q) :
              /\ DXCC \in DOMAIN q[x]
              /\ (COUNTRY \notin DOMAIN q[x] \/ q[x][COUNTRY] = <<>>)}}

(* list is the ascending, duplicate-free list of the non-empty texts of S,  *)
(* and count is its length                                                  *)
IsSortedSet(list, count, S) ==
    /\ count = Len(list)
    /\ {list[i] : i \in 1..Len(list)} = S \ {<<>>}
    /\ \A i \in 1..(Len(list) - 1) : TextLess(list[i], list[i + 1])

(* C7: compute_stats returns total = the length of the sequence and, for    *)
(* each dimension, the ascending, duplicate-free list of the non-empty      *)
(* normalized values (band = BAND in lower case, mode = MODE in upper case, *)
(* country = COUNTRY as it is, or DXCC as it is when COUNTRY is empty or    *)
(* absent) with the count equal to the length of the list; BAND values 40M  *)
(* and 40m give the band count 1 and the band list ["40m"].                 *)
C7_Stats ==
    pc = "html_open" =>
        /\ stats.total = Len(qsos)
        /\ IsSortedSet(stats.band_list, stats.bands, {Lower(v) : v \in ValuesOf(qsos, BAND)})
        /\ IsSortedSet(stats.mode_list, stats.modes, {Upper(v) : v \in ValuesOf(qsos, MODE)})
        /\ IsSortedSet(stats.country_list, stats.countries, CountryValues(qsos))
        /\ qsos = <<(BAND :> <<"4", "0", "M">>), (BAND :> <<"4", "0", "m">>)>>
              => (stats.bands = 1 /\ stats.band_list = <<<<"4", "0", "m">>>>)
        /\ qsos = <<(BAND :> <<"4", "0", "m">>), (BAND :> <<"2", "0", "m">>)>>
              => stats.band_list = <<<<"2", "0", "m">>, <<"4", "0", "m">>>>

(* the statistics of two records with the BAND values 40M and 40m *)
C7_Witness ==
    /\ pc = "html_open"
    /\ Len(qsos) = 2
    /\ BAND \in DOMAIN qsos[1] /\ qsos[1][BAND] = <<"4", "0", "M">>
    /\ BAND \in DOMAIN qsos[2] /\ qsos[2][BAND] = <<"4", "0", "m">>
    /\ stats.total = 2
    /\ stats.band_list = <<<<"4", "0", "m">>>>

----------------------------------------------------------------------------
(* The claims about build_logbook_csv (specification SpecExport)            *)

(* the pieces of s between the occurrences of the character sep *)
RECURSIVE SplitOn(_, _)
SplitOn(s, sep) ==
    IF \E i \in 1..Len(s) : s[i] = sep
    THEN LET p == CHOOSE i \in 1..Len(s) : s[i] = sep /\ \A k \in 1..(i - 1) : s[k] # sep
         IN  <<SubSeq(s, 1, p - 1)>> \o SplitOn(SubSeq(s, p + 1, Len(s)), sep)
    ELSE <<s>>

(* the records that have a CALL that is not empty, in the order of q *)
WithCall(q) ==
    LET idx == {i \in 1..Len(q) : CALL \in DOMAIN q[i] /\ q[i][CALL] # <<>>}
        nth(k) == CHOOSE i \in idx : Cardinality({x \in idx : x < i}) = k - 1
    IN  [k \in 1..Cardinality(idx) |-> q[nth(k)]]

(* the lines of the export: the header, the data rows, and nothing after    *)
(* the last newline                                                         *)
DataRows(text) ==
    LET lines == SplitOn(text, "\n")
    IN  SubSeq(lines, 2, Len(lines) - 1)

(* C8: build_logbook_csv emits the header line followed by exactly one data *)
(* row per record whose upper-cased CALL is not empty, in the order of the  *)
(* records, each terminated by a newline, while compute_stats on the same   *)
(* sequence reports total = the number of all records, those without CALL   *)
(* included.                                                                *)
C8_RowsAndTotal ==
    pc = "write_csv" =>
        LET lines == SplitOn(csv_content, "\n")
            rows == DataRows(csv_content)
            calls == WithCall(qsos)
        IN  /\ lines[1] = Header
            /\ lines[Len(lines)] = <<>>
            /\ Len(rows) = Len(calls)
            /\ \A k \in 1..Len(rows) :
                  SplitOn(rows[k], ",")[1] = Upper(calls[k][CALL])
            /\ stats.total = Len(qsos)

(* three records of which one lacks CALL: a header, two rows, total 3 *)
C8_Witness ==
    /\ pc = "write_csv"
    /\ Len(qsos) = 3
    /\ CALL \notin DOMAIN qsos[2]
    /\ Len(WithCall(qsos)) = 2
    /\ Len(DataRows(csv_content)) = 2
    /\ SplitOn(DataRows(csv_content)[1], ",")[1] = <<"L", "U", "9">>
    /\ SplitOn(DataRows(csv_content)[2], ",")[1] = <<"W", "1">>
    /\ stats.total = 3

(* the raw QSO_DATE of a record, empty when the record has none *)
RawDate(qso) == IF QSO_DATE \in DOMAIN qso THEN qso[QSO_DATE] ELSE <<>>

(* YYYYMMDD as DD/MM/YYYY *)
DayMonthYear(d) == <<d[7], d[8], "/", d[5], d[6], "/", d[1], d[2], d[3], d[4]>>

(* C9 as stated: in every export row the date column is QSO_DATE as         *)
(* DD/MM/YYYY if the raw value is exactly 8 digits, and is otherwise the    *)
(* raw value unchanged (empty when QSO_DATE is absent).                     *)
C9_DateOfEightDigits ==
    pc = "write_csv" =>
        \A k \in 1..Len(WithCall(qsos)) :
            LET d == RawDate(WithCall(qsos)[k])
            IN  SplitOn(DataRows(csv_content)[k], ",")[2] =
                    IF Len(d) = 8 /\ \A i \in 1..Len(d) : IsDigit(d[i])
                    THEN DayMonthYear(d) ELSE d

(* C9, amended: in every export row the date column is QSO_DATE with its    *)
(* characters rearranged from YYYYMMDD to DD/MM/YYYY if the raw value is    *)
(* exactly 8 characters long, digits or not, and is otherwise the raw value *)
(* unchanged (empty when QSO_DATE is absent).                               *)
C9_DateOfEightCharacters ==
    pc = "write_csv" =>
        \A k \in 1..Len(WithCall(qsos)) :
            LET d == RawDate(WithCall(qsos)[k])
            IN  SplitOn(DataRows(csv_content)[k], ",")[2] =
                    IF Len(d) = 8 THEN DayMonthYear(d) ELSE d

(* rows for 20240115, which becomes 15/01/2024, and 2024, which stays *)
C9_Witness ==
    /\ pc = "write_csv"
    /\ Len(qsos) = 2
    /\ Len(DataRows(csv_content)) = 2
    /\ RawDate(qsos[1]) = <<"2", "0", "2", "4", "0", "1", "1", "5">>
    /\ SplitOn(DataRows(csv_content)[1], ",")[2] =
           <<"1", "5", "/", "0", "1", "/", "2", "0", "2", "4">>
    /\ RawDate(qsos[2]) = <<"2", "0", "2", "4">>
    /\ SplitOn(DataRows(csv_content)[2], ",")[2] = <<"2", "0", "2", "4">>

====
